---- MODULE Spec2Model ----
(***************************************************************************)
(* VividTodo: the Todo model and the TodoStore of app.js.                  *)
(*                                                                         *)
(* JavaScript values are records tagged by their type (t); the characters  *)
(* of a string are a sequence of one-character strings.  Arrays are        *)
(* sequences; the code's indexes are 0-based and are kept 0-based here     *)
(* (At, FindIndex, SpliceRemove, SpliceInsert).                            *)
(***************************************************************************)
EXTENDS Integers, Sequences, FiniteSets, TLC

(***************************************************************************)
(* Bounds                                                                  *)
(***************************************************************************)
\* number of calls of the store in a session
MaxCalls == 4

\* the values Date.now() returns (milliseconds)
Clock == {10, 11}

(***************************************************************************)
(* JavaScript values, tagged by their type                                 *)
(***************************************************************************)
Undefined == [t |-> "undefined"]
Null == [t |-> "null"]
Str(s) == [t |-> "string", v |-> s]
Bool(b) == [t |-> "boolean", v |-> b]
Arr(elems) == [t |-> "array", v |-> elems]
Obj(fields) == [t |-> "object", v |-> fields]
\* a string held by localStorage: the empty string, a text that is not
\* JSON, or the JSON text of the value doc
Text(syntax, doc) == [t |-> "text", syntax |-> syntax, doc |-> doc]

\* ToBoolean, as applied by if (...) and by !
Truthy(x) ==
    CASE x.t = "boolean" -> x.v
      [] x.t = "string" -> x.v # <<>>
      [] x.t = "text" -> x.syntax # "empty"
      [] x.t \in {"undefined", "null"} -> FALSE
      [] OTHER -> TRUE

\* a property read x.key cannot be evaluated on undefined and null
ThrowsOnRead(x) == x.t \in {"undefined", "null"}

\* x.key where the read does not throw
Get(x, key) ==
    IF x.t = "object" /\ key \in DOMAIN x.v THEN x.v[key] ELSE Undefined

Milk == <<"m", "i", "l", "k">>
Dog == <<"d", "o", "g">>
Texts == {Milk, Dog}

\* the filter modes a caller passes; "other" is any mode the switch does not name
Modes == {"all", "active", "completed", "other"}

(***************************************************************************)
(* JavaScript built-ins used by the store                                  *)
(***************************************************************************)
Digit(d) == CASE d = 0 -> "0" [] d = 1 -> "1" [] d = 2 -> "2" [] d = 3 -> "3"
              [] d = 4 -> "4" [] d = 5 -> "5" [] d = 6 -> "6" [] d = 7 -> "7"
              [] d = 8 -> "8" [] d = 9 -> "9"

RECURSIVE NumberToString(_)
\* Number.prototype.toString() of a non-negative integer: its decimal digits
NumberToString(n) ==
    IF n < 10 THEN <<Digit(n)>>
    ELSE NumberToString(n \div 10) \o <<Digit(n % 10)>>

\* Math.random() returns a number in [0, 1); a sample is given by the
\* digits of its base-36 fraction (<<"i">> is the number 0.5)
RandomSamples ==
    { <<"i">>,
      <<"a", "b", "c", "d", "e", "f">>,
      <<"a", "b", "c", "d", "e", "g">> }

\* Number.prototype.toString(36) of a sample of Math.random()
RandomToString36(r) == IF r = <<>> THEN <<"0">> ELSE <<"0", ".">> \o r

\* String.prototype.substr(start, length)
Substr(s, start, length) ==
    IF start >= Len(s) THEN <<>>
    ELSE SubSeq(s, start + 1, IF start + length < Len(s) THEN start + length ELSE Len(s))

\* an id made of the timestamp alone
NewIdNoSuffix(now, r) == Str(NumberToString(now))

\* the id expression of addTodo
NewId(now, r) == Str(NumberToString(now) \o Substr(RandomToString36(r), 2, 5))

\* arr[i], 0-based
At(arr, i) == arr[i + 1]

RECURSIVE FindIndexFrom(_, _, _)
FindIndexFrom(arr, id, i) ==
    IF i >= Len(arr) THEN -1
    ELSE IF At(arr, i).id = id THEN i
    ELSE FindIndexFrom(arr, id, i + 1)

\* this._todos.findIndex(t => t.id === id)
FindIndex(arr, id) == FindIndexFrom(arr, id, 0)

\* arr.splice(idx, 2)
SpliceRemoveTwo(arr, idx) == SubSeq(arr, 1, idx) \o SubSeq(arr, idx + 3, Len(arr))

\* arr.splice(idx, 1): the array that remains
SpliceRemove(arr, idx) == SubSeq(arr, 1, idx) \o SubSeq(arr, idx + 2, Len(arr))

\* arr.splice(idx, 0, item); an index beyond the end is clamped to the length
SpliceInsert(arr, idx, item) ==
    LET k == IF idx > Len(arr) THEN Len(arr) ELSE idx
    IN  SubSeq(arr, 1, k) \o <<item>> \o SubSeq(arr, k + 1, Len(arr))

RECURSIVE ArrayFilterSkipping(_, _)
\* a filter that removes in place while it iterates: the element after a
\* removed one is never tested
ArrayFilterSkipping(arr, wanted) ==
    IF arr = <<>> THEN <<>>
    ELSE IF Truthy(Head(arr).completed) = wanted
         THEN <<Head(arr)>> \o ArrayFilterSkipping(Tail(arr), wanted)
         ELSE IF Tail(arr) = <<>> THEN <<>>
              ELSE <<Head(Tail(arr))>> \o ArrayFilterSkipping(Tail(Tail(arr)), wanted)

RECURSIVE ArrayFilterInverted(_, _)
\* Array.prototype.filter with the callback negated
ArrayFilterInverted(arr, wanted) ==
    IF arr = <<>> THEN <<>>
    ELSE IF Truthy(Head(arr).completed) # wanted
         THEN <<Head(arr)>> \o ArrayFilterInverted(Tail(arr), wanted)
         ELSE ArrayFilterInverted(Tail(arr), wanted)

RECURSIVE ArrayFilter(_, _)
\* Array.prototype.filter with the callback t => t.completed (wanted) or
\* t => !t.completed (not wanted)
ArrayFilter(arr, wanted) ==
    IF arr = <<>> THEN <<>>
    ELSE IF Truthy(Head(arr).completed) = wanted
         THEN <<Head(arr)>> \o ArrayFilter(Tail(arr), wanted)
         ELSE ArrayFilter(Tail(arr), wanted)

\* JSON.stringify of an array of plain objects: a property whose value is
\* undefined is left out of the text
JSONStringify(data) ==
    Text("json",
         Arr([i \in 1..Len(data) |->
                Obj([k \in {key \in DOMAIN data[i] : data[i][key].t # "undefined"}
                       |-> data[i][k]])]))

\* JSON.parse: throws a SyntaxError unless the text is JSON
JSONParse(raw) ==
    IF raw.syntax = "json" THEN [threw |-> FALSE, val |-> raw.doc]
    ELSE [threw |-> TRUE, val |-> Undefined]

(***************************************************************************)
(* Todo                                                                    *)
(***************************************************************************)
\* a Todo built without its third argument
TodoNotCompleted(id, text, completed) ==
    [id |-> id, text |-> text, completed |-> Bool(FALSE)]

\* new Todo(id, text, completed = false): the default applies to undefined
Todo(id, text, completed) ==
    [id |-> id, text |-> text,
     completed |-> IF completed.t = "undefined" THEN Bool(FALSE) ELSE completed]

\* a toggle that only ever completes
toggleToCompleted(t) == [t EXCEPT !.completed = Bool(TRUE)]

toggle(t) == [t EXCEPT !.completed = Bool(~Truthy(t.completed))]

setText(t, newText) == [t EXCEPT !.text = newText]

(***************************************************************************)
(* TodoStore                                                               *)
(***************************************************************************)
VARIABLES
    todos,          \* TodoStore._todos
    localStorage,   \* localStorage.getItem('vividTodoItems'): Null when the key is absent
    err,            \* the exception the last call let escape to its caller, or "none"
    issued,         \* history: the ids addTodo has returned, in order
    removed,        \* history: the ids deleteTodo was called with and found
    last,           \* history: the last call, its arguments and its result
    calls,          \* history: the number of calls made, counted up to MaxCalls
    scn,            \* history: how far the session has followed the scenario of section 8
    phase,          \* "wired": app.js has run, DOMContentLoaded is pending; "ready": its handler has run
    currentFilter,  \* let currentFilter
    rendered,       \* the <li> elements of #todo-list: the todo each one was rendered from
    draggedTodoId,  \* let draggedTodoId
    span,           \* the text span that has the focus: its <li> (0: none) and its textContent
    ev              \* history: the last event of the page and the store method its handler called

storeVars == <<todos, localStorage, err, issued, removed, last, scn>>

viewVars == <<phase, currentFilter, rendered, draggedTodoId, span, ev>>

vars == <<todos, localStorage, err, issued, removed, last, calls, scn,
          phase, currentFilter, rendered, draggedTodoId, span, ev>>

\* ids that addTodo can produce as well
IdA == NewId(10, <<"i">>)
IdB == NewId(11, <<"i">>)
\* an id no task has
MissingId == Str(<<"n", "o", "n", "e">>)

Stored(id, text, completed) ==
    Obj([k \in {"id", "text", "completed"} |->
           CASE k = "id" -> id [] k = "text" -> text [] k = "completed" -> completed])

\* what the key may hold when the page is opened
StoredValues ==
    { Null,
      Text("empty", Null),
      Text("invalid", Null),
      Text("json", Obj([k \in {} |-> Null])),
      Text("json", Arr(<<>>)),
      Text("json", Arr(<<Null>>)),
      Text("json", Arr(<<Obj([k \in {} |-> Null])>>)),
      Text("json", Arr(<<Stored(IdA, Str(Milk), Bool(FALSE)), Stored(IdB, Str(Dog), Bool(TRUE))>>)),
      Text("json", Arr(<<Stored(IdA, Str(Milk), Bool(TRUE)), Stored(IdA, Str(Dog), Bool(FALSE))>>)) }

Call(op, a, b, eff) ==
    [op |-> op, a |-> a, b |-> b, eff |-> eff, mode |-> "", res |-> <<>>, follows |-> ""]

\* every call is counted, and a session makes at most MaxCalls calls; a call
\* made on the store itself leaves the page as it is
Counted == calls < MaxCalls /\ calls' = calls + 1 /\ UNCHANGED viewVars

\* no span has the focus
NoSpan == [li |-> 0, text |-> <<>>, esc |-> FALSE]

Event(name, op) == [name |-> name, op |-> op, esc |-> FALSE]

\* a session that follows the scenario of section 8, and reads in between
OnScenario ==
    /\ calls' = IF calls < MaxCalls THEN calls + 1 ELSE calls
    /\ scn' >= 0
    /\ UNCHANGED viewVars

Init ==
    /\ todos = <<>>
    /\ localStorage \in StoredValues
    /\ err = "none"
    /\ issued = <<>>
    /\ removed = {}
    /\ last = Call("init", Undefined, Undefined, FALSE)
    /\ calls = 0
    /\ scn = 0
    /\ phase = "wired"
    /\ currentFilter = "all"
    /\ rendered = <<>>
    /\ draggedTodoId = Null
    /\ span = NoSpan
    /\ ev = Event("none", "")

\* the steps of the scenario: add('buy milk'), add('walk dog'), toggle(dogId),
\* reorder(milkId, dogId), clearCompleted(); -1 once the session has left it
ScnStep(op, a, b) ==
    CASE scn = 0 /\ op = "add" /\ b = Str(Milk) -> 1
      [] scn = 1 /\ op = "add" /\ b = Str(Dog) -> 2
      [] scn = 2 /\ op = "toggle" /\ a = issued[2] -> 3
      [] scn = 3 /\ op = "reorder" /\ a = issued[1] /\ b = issued[2] -> 4
      [] scn = 4 /\ op = "clearCompleted" -> 5
      [] OTHER -> -1

\* the data without the completed flag
SaveDataNoCompleted(arr) ==
    [i \in 1..Len(arr) |-> [id |-> arr[i].id, text |-> arr[i].text, completed |-> Undefined]]

\* the data saveToStorage builds: this._todos.map(t => ({id, text, completed}))
SaveData(arr) ==
    [i \in 1..Len(arr) |->
       [id |-> arr[i].id, text |-> arr[i].text, completed |-> arr[i].completed]]

\* the value saveToStorage sets
Saved(arr) == JSONStringify(SaveData(arr))

\* the body of the try block of loadFromStorage: JSON.parse, then data.map
TryLoad(raw) ==
    LET parsed == JSONParse(raw)
        data == parsed.val
    IN  IF parsed.threw THEN [threw |-> TRUE, val |-> <<>>]
        ELSE IF data.t # "array" THEN [threw |-> TRUE, val |-> <<>>]
        ELSE IF \E i \in 1..Len(data.v) : ThrowsOnRead(data.v[i])
             THEN [threw |-> TRUE, val |-> <<>>]
        ELSE [threw |-> FALSE,
              val |-> [i \in 1..Len(data.v) |->
                         Todo(Get(data.v[i], "id"), Get(data.v[i], "text"),
                              Get(data.v[i], "completed"))]]

\* loadFromStorage without its try and catch
LoadedUncaught(raw, old) ==
    IF Truthy(raw)
    THEN IF TryLoad(raw).threw
         THEN [todos |-> old, err |-> "Error"]
         ELSE [todos |-> TryLoad(raw).val, err |-> "none"]
    ELSE [todos |-> <<>>, err |-> "none"]

\* loadFromStorage: the new _todos and the exception that escapes
Loaded(raw, old) ==
    IF Truthy(raw)
    THEN IF TryLoad(raw).threw
         THEN [todos |-> <<>>, err |-> "none"]
         ELSE [todos |-> TryLoad(raw).val, err |-> "none"]
    ELSE [todos |-> <<>>, err |-> "none"]

loadFromStorage ==
    /\ todos' = Loaded(localStorage, todos).todos
    /\ err' = Loaded(localStorage, todos).err
    /\ last' = [Call("load", Undefined, Undefined, TRUE) EXCEPT !.follows = last.op]
    /\ scn' = IF scn = 0 /\ todos' = <<>> THEN 0 ELSE -1
    /\ UNCHANGED <<localStorage, issued, removed>>

saveToStorage ==
    /\ localStorage' = Saved(todos)
    /\ err' = "none"
    /\ last' = Call("save", Undefined, Undefined, TRUE)
    /\ scn' = -1
    /\ UNCHANGED <<todos, issued, removed>>

\* the new task put in front: unshift
Unshifted(arr, todo) == <<todo>> \o arr

\* this._todos.push(todo)
Pushed(arr, todo) == Append(arr, todo)

addTodo(text, now, r) ==
    LET id == NewId(now, r)
        todo == Todo(id, text, Undefined)
    IN  /\ todos' = Pushed(todos, todo)
        /\ localStorage' = Saved(todos')
        /\ err' = "none"
        /\ issued' = Append(issued, id)
        /\ last' = [Call("add", id, text, TRUE) EXCEPT !.res = <<todo>>]
        /\ scn' = ScnStep("add", id, text)
        /\ UNCHANGED removed

\* a call that finds nothing to do and saves all the same
NoopSaving(op, a, b) ==
    /\ err' = "none"
    /\ last' = Call(op, a, b, FALSE)
    /\ scn' = ScnStep(op, a, b)
    /\ localStorage' = Saved(todos)
    /\ UNCHANGED <<todos, issued, removed>>

\* a call that finds nothing to do returns without saving
Noop(op, a, b) ==
    /\ err' = "none"
    /\ last' = Call(op, a, b, FALSE)
    /\ scn' = ScnStep(op, a, b)
    /\ UNCHANGED <<todos, localStorage, issued, removed>>

AfterEdit(arr, id, newText) ==
    LET idx == FindIndex(arr, id)
    IN  [arr EXCEPT ![idx + 1] = setText(arr[idx + 1], newText)]

editTodo(id, newText) ==
    IF FindIndex(todos, id) # -1
    THEN /\ todos' = AfterEdit(todos, id, newText)
         /\ localStorage' = Saved(todos')
         /\ err' = "none"
         /\ last' = Call("edit", id, newText, TRUE)
         /\ scn' = ScnStep("edit", id, newText)
         /\ UNCHANGED <<issued, removed>>
    ELSE Noop("edit", id, newText)

AfterToggle(arr, id) ==
    LET idx == FindIndex(arr, id)
    IN  [arr EXCEPT ![idx + 1] = toggle(arr[idx + 1])]

toggleTodo(id) ==
    IF FindIndex(todos, id) # -1
    THEN /\ todos' = AfterToggle(todos, id)
         /\ localStorage' = Saved(todos')
         /\ err' = "none"
         /\ last' = Call("toggle", id, Undefined, TRUE)
         /\ scn' = ScnStep("toggle", id, Undefined)
         /\ UNCHANGED <<issued, removed>>
    ELSE Noop("toggle", id, Undefined)

deleteTodo(id) ==
    LET index == FindIndex(todos, id)
    IN  IF index # -1
        THEN /\ todos' = SpliceRemove(todos, index)
             /\ localStorage' = Saved(todos')
             /\ err' = "none"
             /\ removed' = removed \cup {id}
             /\ last' = Call("remove", id, Undefined, TRUE)
             /\ scn' = ScnStep("remove", id, Undefined)
             /\ UNCHANGED issued
        ELSE Noop("remove", id, Undefined)

clearCompleted ==
    /\ todos' = ArrayFilter(todos, FALSE)
    /\ localStorage' = Saved(todos')
    /\ err' = "none"
    /\ last' = [Call("clearCompleted", Undefined, Undefined, TRUE) EXCEPT !.follows = last.op]
    /\ scn' = ScnStep("clearCompleted", Undefined, Undefined)
    /\ UNCHANGED <<issued, removed>>

\* filterTodos without its case 'completed'
FilteredNoCompletedCase(arr, filter) ==
    CASE filter = "active" -> ArrayFilter(arr, FALSE)
      [] OTHER -> arr

\* filterTodos: the array returned
Filtered(arr, filter) ==
    CASE filter = "active" -> ArrayFilter(arr, FALSE)
      [] filter = "completed" -> ArrayFilter(arr, TRUE)
      [] OTHER -> arr

filterTodos(filter) ==
    /\ last' = [Call("filter", Undefined, Undefined, TRUE)
                  EXCEPT !.mode = filter, !.res = Filtered(todos, filter)]
    /\ err' = "none"
    /\ scn' = scn
    /\ UNCHANGED <<todos, localStorage, issued, removed>>

\* insertIdx for an insertion after the target
InsertIdxAfterTarget(draggedIdx, targetIdx) ==
    IF draggedIdx < targetIdx THEN targetIdx ELSE targetIdx + 1

\* insertIdx without the adjustment for the removal before the target
InsertIdxUnadjusted(draggedIdx, targetIdx) == targetIdx

\* insertIdx of reorderTodos
InsertIdx(draggedIdx, targetIdx) ==
    IF draggedIdx < targetIdx THEN targetIdx - 1 ELSE targetIdx

\* reorderTodos past its two early returns: the two splices
AfterReorder(arr, draggedIdx, targetIdx) ==
    LET draggedItem == At(arr, draggedIdx)
        rest == SpliceRemove(arr, draggedIdx)
    IN  SpliceInsert(rest, InsertIdx(draggedIdx, targetIdx), draggedItem)

reorderTodos(draggedId, targetId) ==
    LET draggedIdx == FindIndex(todos, draggedId)
        targetIdx == FindIndex(todos, targetId)
    IN  IF draggedId = targetId \/ draggedIdx = -1 \/ targetIdx = -1
        THEN Noop("reorder", draggedId, targetId)
        ELSE /\ todos' = AfterReorder(todos, draggedIdx, targetIdx)
             /\ localStorage' = Saved(todos')
             /\ err' = "none"
             /\ last' = Call("reorder", draggedId, targetId, TRUE)
             /\ scn' = ScnStep("reorder", draggedId, targetId)
             /\ UNCHANGED <<issued, removed>>

\* the ids a caller passes: those of the tasks held, and one that no task has
ArgIds == {todos[i].id : i \in 1..Len(todos)} \cup {MissingId}

Next ==
    \/ Counted /\ loadFromStorage
    \/ Counted /\ saveToStorage
    \/ \E text \in Texts, now \in Clock, r \in RandomSamples :
          Counted /\ addTodo(Str(text), now, r)
    \/ \E id \in ArgIds, text \in Texts : Counted /\ editTodo(id, Str(text))
    \/ \E id \in ArgIds : Counted /\ toggleTodo(id)
    \/ \E id \in ArgIds : Counted /\ deleteTodo(id)
    \/ Counted /\ clearCompleted
    \/ \E filter \in Modes : Counted /\ filterTodos(filter)
    \/ \E d \in ArgIds, t \in ArgIds : Counted /\ reorderTodos(d, t)

Spec == Init /\ [][Next]_vars

\* the sessions of the scenario of section 8
ScenarioNext ==
    \/ loadFromStorage /\ OnScenario
    \/ \E text \in Texts, now \in Clock, r \in RandomSamples :
          addTodo(Str(text), now, r) /\ OnScenario
    \/ \E id \in ArgIds : toggleTodo(id) /\ OnScenario
    \/ \E filter \in Modes : filterTodos(filter) /\ OnScenario
    \/ \E d \in ArgIds, t \in ArgIds : reorderTodos(d, t) /\ OnScenario
    \/ clearCompleted /\ OnScenario

Scenario == Init /\ [][ScenarioNext]_vars

(***************************************************************************)
(* The page: rendering and event listeners                                 *)
(***************************************************************************)
RECURSIVE TrimStart(_)
TrimStart(s) == IF s # <<>> /\ Head(s) = " " THEN TrimStart(Tail(s)) ELSE s

RECURSIVE TrimEnd(_)
TrimEnd(s) ==
    IF s # <<>> /\ s[Len(s)] = " " THEN TrimEnd(SubSeq(s, 1, Len(s) - 1)) ELSE s

\* a trim that leaves trailing spaces: trimStart
TrimStartOnly(s) == TrimStart(s)

\* String.prototype.trim
Trim(s) == TrimEnd(TrimStart(s))

\* what the user has typed into #new-todo when Enter is pressed
KeyedValues == {<<" ">>, <<"d", "o", "g", " ">>}

\* what the user leaves in a text span
SpanTexts == {<<" ">>, <<" ", "m", "i", "l", "k">>, Dog}

\* data-filter of the three filter buttons
FilterButtons == {"all", "active", "completed"}

\* li.dataset.id = todo.id: a data attribute holds a string
DatasetId(id) ==
    IF id.t = "undefined" THEN Str(<<"u", "n", "d", "e", "f", "i", "n", "e", "d">>) ELSE id

\* a rendering that ignores the filter
RenderedUnfiltered(arr, filter) == arr

\* renderTodoList(filter): one <li> per task of filterTodos(filter), in its order
Rendered(arr, filter) == Filtered(arr, filter)

\* renderTodoList(currentFilter) at the end of a handler: the list is built
\* anew and the span that had the focus is gone
Rerender ==
    /\ rendered' = Rendered(todos', currentFilter)
    /\ span' = NoSpan
    /\ UNCHANGED <<phase, currentFilter, draggedTodoId>>

\* a handler that returns without calling the store
NothingCalled(name) ==
    /\ ev' = Event(name, "")
    /\ UNCHANGED storeVars

\* an event is handled; a session handles at most MaxCalls
Handled == calls < MaxCalls /\ calls' = calls + 1

\* document DOMContentLoaded
DOMContentLoaded ==
    /\ phase = "wired"
    /\ loadFromStorage
    /\ phase' = "ready"
    /\ currentFilter' = "all"
    /\ rendered' = Rendered(todos', currentFilter')
    /\ span' = NoSpan
    /\ ev' = Event("DOMContentLoaded", "load")
    /\ UNCHANGED draggedTodoId

\* newTodoInput keydown with e.key === 'Enter'
NewTodoKeydown(value, now, r) ==
    /\ span.li = 0
    /\ IF Truthy(Str(Trim(value)))
       THEN /\ addTodo(Str(Trim(value)), now, r)
            /\ ev' = Event("keydown", "add")
            /\ Rerender
       ELSE /\ NothingCalled("keydown")
            /\ UNCHANGED <<phase, currentFilter, rendered, draggedTodoId, span>>

\* filter button click
FilterClick(filter) ==
    /\ span.li = 0
    /\ currentFilter' = filter
    /\ rendered' = Rendered(todos, currentFilter')
    /\ NothingCalled("click filter")
    /\ UNCHANGED <<phase, draggedTodoId, span>>

\* #clear-completed click
ClearCompletedClick ==
    /\ span.li = 0
    /\ clearCompleted
    /\ ev' = Event("click clear-completed", "clearCompleted")
    /\ Rerender

\* checkbox change on the i-th <li>
CheckboxChange(i) ==
    /\ span.li = 0
    /\ toggleTodo(rendered[i].id)
    /\ ev' = Event("change", "toggle")
    /\ Rerender

\* delete button click on the i-th <li>
DeleteClick(i) ==
    /\ span.li = 0
    /\ deleteTodo(rendered[i].id)
    /\ ev' = Event("click delete", "remove")
    /\ Rerender

\* dragstart on the i-th <li>
DragStart(i) ==
    /\ span.li = 0
    /\ draggedTodoId = Null
    /\ draggedTodoId' = rendered[i].id
    /\ NothingCalled("dragstart")
    /\ UNCHANGED <<phase, currentFilter, rendered, span>>

\* dragend on the <li> that is dragged
DragEnd ==
    /\ draggedTodoId # Null
    /\ draggedTodoId' = Null
    /\ NothingCalled("dragend")
    /\ UNCHANGED <<phase, currentFilter, rendered, span>>

\* drop on the i-th <li>
Drop(i) ==
    LET targetId == DatasetId(rendered[i].id)
    IN  /\ draggedTodoId # Null
        /\ IF Truthy(draggedTodoId) /\ Truthy(targetId)
           THEN /\ reorderTodos(draggedTodoId, targetId)
                /\ ev' = Event("drop", "reorder")
                /\ Rerender
           ELSE /\ NothingCalled("drop")
                /\ UNCHANGED <<phase, currentFilter, rendered, draggedTodoId, span>>

\* the user types in the text span of the i-th <li>: no listener, the span's
\* textContent changes
SpanInput(i, text) ==
    /\ span.li \in {0, i}
    /\ draggedTodoId = Null
    /\ span' = [li |-> i, text |-> text, esc |-> FALSE]
    /\ NothingCalled("input")
    /\ UNCHANGED <<phase, currentFilter, rendered, draggedTodoId>>

\* the user presses Esc in the span: no listener is registered for it
SpanKeydownEsc ==
    /\ span.li # 0
    /\ ~span.esc
    /\ span' = [span EXCEPT !.esc = TRUE]
    /\ NothingCalled("keydown Esc")
    /\ UNCHANGED <<phase, currentFilter, rendered, draggedTodoId>>

\* blur of the span that has the focus; the event records whether Esc was
\* the last key pressed on a changed text
SpanBlur ==
    LET todo == rendered[span.li]
        newText == Str(Trim(span.text))
        cancelled == span.esc /\ Str(span.text) # todo.text
    IN  /\ span.li # 0
        /\ IF Truthy(newText) /\ newText # todo.text
           THEN /\ editTodo(todo.id, newText)
                /\ ev' = [Event("blur", "edit") EXCEPT !.esc = cancelled]
                /\ Rerender
           ELSE /\ ev' = [Event("blur", "") EXCEPT !.esc = cancelled]
                /\ span' = NoSpan
                /\ UNCHANGED storeVars
                /\ UNCHANGED <<phase, currentFilter, rendered, draggedTodoId>>

\* window.TodoStore.addTodo called by other code of the page, with no text
ExternalAddTodo(now, r) ==
    /\ addTodo(Str(<<>>), now, r)
    /\ ev' = Event("external", "")
    /\ UNCHANGED <<phase, currentFilter, rendered, draggedTodoId, span>>

ViewNext ==
    \/ Handled /\ DOMContentLoaded
    \/ \E value \in KeyedValues, now \in Clock, r \in RandomSamples :
          Handled /\ NewTodoKeydown(value, now, r)
    \/ \E filter \in FilterButtons : Handled /\ FilterClick(filter)
    \/ Handled /\ ClearCompletedClick
    \/ \E i \in 1..Len(rendered) : Handled /\ CheckboxChange(i)
    \/ \E i \in 1..Len(rendered) : Handled /\ DeleteClick(i)
    \/ \E i \in 1..Len(rendered) : Handled /\ DragStart(i)
    \/ Handled /\ DragEnd
    \/ \E i \in 1..Len(rendered) : Handled /\ Drop(i)
    \/ \E i \in 1..Len(rendered), text \in SpanTexts : Handled /\ SpanInput(i, text)
    \/ Handled /\ SpanKeydownEsc
    \/ Handled /\ SpanBlur
    \/ \E now \in Clock, r \in RandomSamples : Handled /\ ExternalAddTodo(now, r)

View == Init /\ [][ViewNext]_vars

(***************************************************************************)
(* Properties                                                              *)
(***************************************************************************)
TextsOf(arr) == [i \in 1..Len(arr) |-> arr[i].text]

\* C1: after reorder(d, t) with d # t both present, the task with id d sits
\* at the position immediately before the task with id t
C1_DraggedImmediatelyBeforeTarget ==
    (last.op = "reorder" /\ last.eff) =>
        \E i \in 1..(Len(todos) - 1) : todos[i].id = last.a /\ todos[i + 1].id = last.b

\* a reorder has moved the first of three tasks to just before the third
C1_Witness ==
    /\ last.op = "reorder" /\ last.eff
    /\ Len(todos) = 3
    /\ todos[2].id = last.a /\ todos[3].id = last.b
    /\ todos[1].id # last.a

\* C2 as stated, where the two adds return different ids: from an empty
\* store, add('buy milk'), add('walk dog'), toggle(dogId), reorder(milkId, dogId)
\* leave the order [dog, milk], and clearCompleted() then leaves [milk]
C2_ScenarioAsStated ==
    (scn >= 4 /\ issued[1] # issued[2]) =>
        /\ scn = 4 => TextsOf(todos) = <<Str(Dog), Str(Milk)>>
        /\ scn = 5 => TextsOf(todos) = <<Str(Milk)>>

\* C2 amended: the reorder leaves the order [milk, dog]; clearCompleted() then
\* leaves [milk], or [dog] when the two adds returned the same id (toggle
\* then completed milk, the first task with that id)
C2_ScenarioAmended ==
    /\ scn = 4 => TextsOf(todos) = <<Str(Milk), Str(Dog)>>
    /\ scn = 5 => TextsOf(todos) =
                     IF issued[1] # issued[2] THEN <<Str(Milk)>> ELSE <<Str(Dog)>>

\* the scenario has run to its end with two different ids
C2_Witness ==
    /\ scn = 5 /\ last.op = "clearCompleted"
    /\ issued[1] # issued[2]
    /\ TextsOf(todos) = <<Str(Milk)>>

\* C3: the ids returned by add are pairwise distinct
C3_IssuedIdsPairwiseDistinct ==
    \A i, j \in 1..Len(issued) : i < j => issued[i] # issued[j]

\* C4: no two tasks in items have the same id
C4_NoTwoTasksShareAnId ==
    \A i, j \in 1..Len(todos) : i < j => todos[i].id # todos[j].id

Mutating == {"add", "edit", "toggle", "remove", "clearCompleted", "reorder"}

Fields == {"id", "text", "completed"}

\* raw is the JSON text of an array with one {id, text, completed} record per
\* task of arr, in the order of arr
IsSerializationOf(raw, arr) ==
    /\ raw.t = "text" /\ raw.syntax = "json"
    /\ raw.doc.t = "array"
    /\ Len(raw.doc.v) = Len(arr)
    /\ \A i \in 1..Len(arr) :
          /\ raw.doc.v[i].t = "object"
          /\ DOMAIN raw.doc.v[i].v \subseteq Fields
          /\ \A k \in Fields : Get(raw.doc.v[i], k) = arr[i][k]

\* C5 as stated: after each mutating operation the stored value is exactly
\* the serialization of the current items
C5_StoredAfterEveryMutatingCall ==
    last.op \in Mutating => IsSerializationOf(localStorage, todos)

\* C5 amended: after each mutating operation that did not return early (add,
\* clearCompleted, edit, toggle and remove of a present id, reorder of two
\* different present ids) the stored value is exactly the serialization of
\* the current items
C5_StoredAfterEveryEffectiveCall ==
    (last.op \in Mutating /\ last.eff) => IsSerializationOf(localStorage, todos)

\* a reorder of two tasks has been written through
C5_Witness ==
    /\ last.op = "reorder" /\ last.eff
    /\ Len(todos) >= 2
    /\ todos[1].completed # todos[2].completed
    /\ IsSerializationOf(localStorage, todos)

\* C6: persist() followed by load() yields the items held before persist()
C6_PersistThenLoadRoundTrip ==
    [][(last.op = "save" /\ last'.op = "load") => todos' = todos]_vars

\* a load that followed a persist has restored two tasks, one of them completed
C6_Witness ==
    /\ last.op = "load" /\ last.follows = "save"
    /\ Len(todos) = 2
    /\ todos[1].completed # todos[2].completed
    /\ todos[1].id # todos[2].id

AbsentEmptyOrUnparseable(raw) ==
    \/ raw.t = "null"
    \/ raw.t = "text" /\ raw.syntax \in {"empty", "invalid"}

\* C7: when the key is absent, holds an empty value or a value that does not
\* parse, load() raises no error and leaves items empty
C7_LoadOfNoDataIsEmpty ==
    (last.op = "load" /\ AbsentEmptyOrUnparseable(localStorage)) =>
        (todos = <<>> /\ err = "none")

\* a load has met a value that does not parse
C7_Witness ==
    /\ last.op = "load"
    /\ localStorage = Text("invalid", Null)
    /\ todos = <<>> /\ err = "none"

\* an array of objects with exactly the fields id: string, text: string,
\* completed: boolean
HasPersistenceShape(doc) ==
    /\ doc.t = "array"
    /\ \A i \in 1..Len(doc.v) :
          /\ doc.v[i].t = "object"
          /\ DOMAIN doc.v[i].v = Fields
          /\ doc.v[i].v["id"].t = "string"
          /\ doc.v[i].v["text"].t = "string"
          /\ doc.v[i].v["completed"].t = "boolean"

\* C8: when the stored value parses but is not of the persistence shape,
\* load() leaves items empty and raises no error
C8_LoadOfOtherShapeIsEmpty ==
    (/\ last.op = "load"
     /\ localStorage.t = "text" /\ localStorage.syntax = "json"
     /\ ~HasPersistenceShape(localStorage.doc)) =>
        (todos = <<>> /\ err = "none")

\* the tasks of arr at the indexes in S, in the order of arr
Selected(arr, S) ==
    [k \in 1..Cardinality(S) |->
       arr[CHOOSE i \in S : Cardinality({j \in S : j < i}) = k - 1]]

\* C9: filter('active') returns exactly the tasks with completed = false,
\* filter('completed') those with completed = true, any other mode all tasks,
\* each in the order of items
C9_FilterCorrect ==
    last.op = "filter" =>
        last.res = Selected(todos,
            CASE last.mode = "active" ->
                   {i \in 1..Len(todos) : todos[i].completed = Bool(FALSE)}
              [] last.mode = "completed" ->
                   {i \in 1..Len(todos) : todos[i].completed = Bool(TRUE)}
              [] OTHER -> 1..Len(todos))

\* filter('completed') has picked the second and third of three tasks
C9_Witness ==
    /\ last.op = "filter" /\ last.mode = "completed"
    /\ Len(todos) = 3
    /\ todos[1].completed = Bool(FALSE)
    /\ last.res = <<todos[2], todos[3]>>

\* C10: after remove(id) of a present id, no filter(mode) result ever
\* contains a task with that id
C10_RemovedIdNeverFiltered ==
    \A id \in removed : \A mode \in Modes :
        \A i \in 1..Len(Filtered(todos, mode)) : Filtered(todos, mode)[i].id # id

\* C11: clearCompleted() called twice in a row leaves the same items and the
\* same persisted value as calling it once
C11_ClearCompletedIdempotent ==
    [][(last.op = "clearCompleted" /\ last'.op = "clearCompleted") =>
          (todos' = todos /\ localStorage' = localStorage)]_vars

\* a second clearCompleted in a row has run, the first having removed a task
C11_Witness ==
    /\ last.op = "clearCompleted" /\ last.follows = "clearCompleted"
    /\ todos # <<>>
    /\ \E id \in {IdA, IdB} : \A i \in 1..Len(todos) : todos[i].id # id

IdsOf(arr) == {arr[i].id : i \in 1..Len(arr)}

\* the call recorded in c, made on the items arr, is one of: edit, toggle or
\* remove with an absent id, reorder(x, x), reorder with d or t absent
IsNoopCall(c, arr) ==
    \/ c.op \in {"edit", "toggle", "remove"} /\ c.a \notin IdsOf(arr)
    \/ c.op = "reorder" /\ (c.a = c.b \/ c.a \notin IdsOf(arr) \/ c.b \notin IdsOf(arr))

\* C12: edit, toggle and remove with an absent id, reorder(x, x) and reorder
\* with d or t absent raise no error and leave items and the persisted value
\* unchanged
C12_NoopCallsChangeNothing ==
    [][IsNoopCall(last', todos) =>
          (todos' = todos /\ localStorage' = localStorage /\ err' = "none")]_vars

\* reorder(x, x) of a present id has returned while the key holds no JSON
C12_Witness ==
    /\ last.op = "reorder" /\ ~last.eff
    /\ last.a = last.b /\ last.a \in IdsOf(todos)
    /\ localStorage # Saved(todos)

\* C17: add(text) returns a task with that text and completed = false, and
\* items is the previous items with exactly that task appended
C17_AddAppends ==
    [][last'.op = "add" =>
          /\ Len(last'.res) = 1
          /\ last'.res[1].text = last'.b
          /\ last'.res[1].completed = Bool(FALSE)
          /\ Len(todos') = Len(todos) + 1
          /\ todos'[Len(todos')] = last'.res[1]
          /\ \A i \in 1..Len(todos) : todos'[i] = todos[i]]_vars

\* add has appended a third task behind two that differ
C17_Witness ==
    /\ last.op = "add"
    /\ Len(todos) = 3
    /\ todos[3] = last.res[1]
    /\ todos[1] # todos[2]

\* seq without its k-th element
Without(seq, k) == [i \in 1..(Len(seq) - 1) |-> IF i < k THEN seq[i] ELSE seq[i + 1]]

RECURSIVE IsSubsequence(_, _)
\* a is b with some elements left out
IsSubsequence(a, b) ==
    IF a = <<>> THEN TRUE
    ELSE IF b = <<>> THEN FALSE
    ELSE IF Head(a) = Head(b) /\ IsSubsequence(Tail(a), Tail(b)) THEN TRUE
    ELSE IsSubsequence(a, Tail(b))

\* C18: after remove(id) and clearCompleted() the surviving tasks keep their
\* relative order; after reorder(d, t) items holds the same tasks, none lost
\* or duplicated, and all but the dragged one in their previous relative order
C18_OthersKeepTheirOrder ==
    [][/\ (last'.op = "remove" /\ last'.eff) =>
             \E k \in 1..Len(todos) : todos[k].id = last'.a /\ todos' = Without(todos, k)
       /\ last'.op = "clearCompleted" =>
             /\ IsSubsequence(todos', todos)
             /\ Len(todos') = Cardinality({i \in 1..Len(todos) : todos[i].completed # Bool(TRUE)})
             /\ \A i \in 1..Len(todos') : todos'[i].completed # Bool(TRUE)
       /\ (last'.op = "reorder" /\ last'.eff) =>
             /\ Len(todos') = Len(todos)
             /\ \E k, m \in 1..Len(todos) :
                   /\ todos[k].id = last'.a
                   /\ todos'[m] = todos[k]
                   /\ Without(todos', m) = Without(todos, k)]_vars

\* a reorder has moved the last of three different tasks to the front
C18_Witness ==
    /\ last.op = "reorder" /\ last.eff
    /\ Len(todos) = 3
    /\ todos[1].id = last.a /\ todos[2].id = last.b
    /\ todos[1] # todos[2] /\ todos[2] # todos[3] /\ todos[1] # todos[3]

\* C19: toggle(id) and edit(id, newText) on a present id change one field of
\* one task: toggle flips its completed flag, edit replaces its text; the
\* length, the order, every id and every other field stay
C19_ToggleAndEditChangeOneField ==
    [][/\ (last'.op = "toggle" /\ last'.eff) =>
             /\ Len(todos') = Len(todos)
             /\ \E k \in 1..Len(todos) :
                   /\ todos[k].id = last'.a
                   /\ todos'[k].completed = Bool(~todos[k].completed.v)
                   /\ todos'[k].id = todos[k].id /\ todos'[k].text = todos[k].text
                   /\ \A i \in 1..Len(todos) : i # k => todos'[i] = todos[i]
       /\ (last'.op = "edit" /\ last'.eff) =>
             /\ Len(todos') = Len(todos)
             /\ \E k \in 1..Len(todos) :
                   /\ todos[k].id = last'.a
                   /\ todos'[k].text = last'.b
                   /\ todos'[k].id = todos[k].id
                   /\ todos'[k].completed = todos[k].completed
                   /\ \A i \in 1..Len(todos) : i # k => todos'[i] = todos[i]]_vars

\* toggle has taken the completed flag off the second of two tasks
C19_Witness ==
    /\ last.op = "toggle" /\ last.eff
    /\ Len(todos) = 2
    /\ todos[2].id = last.a /\ todos[1].id # last.a
    /\ todos[2].completed = Bool(FALSE)
    /\ todos[2].text = Str(Dog)

\* C20: after an effective reorder(d, t) the dragged task is not the last
\* element of items; reorder(d, t) with d already immediately before t leaves
\* the order unchanged and still writes the persisted value
C20_NeverMovedToTheEnd ==
    [][(last'.op = "reorder" /\ last'.eff) =>
          /\ \E k \in 1..Len(todos), m \in 1..(Len(todos') - 1) :
                /\ k = FindIndex(todos, last'.a) + 1
                /\ todos'[m] = todos[k]
                /\ Without(todos', m) = Without(todos, k)
          /\ FindIndex(todos, last'.a) + 1 = FindIndex(todos, last'.b) =>
                (todos' = todos /\ IsSerializationOf(localStorage', todos'))]_vars

\* reorder(d, t) has run with d the first and t the second of three tasks
C20_Witness ==
    /\ last.op = "reorder" /\ last.eff
    /\ Len(todos) = 3
    /\ todos[1].id = last.a /\ todos[2].id = last.b
    /\ todos[3].id # last.a /\ todos[3].id # last.b /\ last.a # last.b

\* the indexes of the tasks the filter button `filter` asks for
Shown(arr, filter) ==
    CASE filter = "active" -> {i \in 1..Len(arr) : arr[i].completed = Bool(FALSE)}
      [] filter = "completed" -> {i \in 1..Len(arr) : arr[i].completed = Bool(TRUE)}
      [] OTHER -> 1..Len(arr)

\* C13: load() runs before any other store operation: no handler calls the
\* store while the DOMContentLoaded handler has not yet called loadFromStorage
C13_NoHandlerCallsTheStoreBeforeLoad ==
    (ev.op # "" /\ ev.op # "load") => phase = "ready"

\* C14: after every handler that calls a mutating store operation the
\* rendered list is filter(currentFilter) of the store: same tasks, same order
C14_RenderedIsTheFilteredList ==
    ev.op \in Mutating => rendered = Selected(todos, Shown(todos, currentFilter))

\* a checkbox change under a filter that hides a task
C14_Witness ==
    /\ ev.op = "toggle"
    /\ currentFilter = "active"
    /\ Len(rendered) < Len(todos)

\* C15: Esc on a changed text cancels the edit: once the list is loaded, the
\* blur that ends such an edit session of a task that has a text leaves items
\* and the persisted value as they were
C15_EscCancelsTheEdit ==
    [][(/\ phase = "ready"
        /\ span.li # 0
        /\ rendered[span.li].text.t = "string"
        /\ ev'.name = "blur"
        /\ ev'.esc) =>
          (todos' = todos /\ localStorage' = localStorage)]_vars

\* C16 as stated: no task of items has the empty string as its text, whatever
\* add was called with
C16_NoTaskHasAnEmptyText ==
    \A i \in 1..Len(todos) : todos[i].text # Str(<<>>)

\* C16: the text a listener of the page passes to add or edit is a non-empty
\* string that neither begins nor ends with a space (the store's add takes
\* any text)
C16_ListenersPassATrimmedNonEmptyText ==
    ev.op \in {"add", "edit"} =>
        /\ last.b.t = "string"
        /\ last.b.v # <<>>
        /\ Head(last.b.v) # " "
        /\ last.b.v[Len(last.b.v)] # " "

\* Enter on "dog " has added a task with the text "dog"
C16_Witness ==
    /\ ev.name = "keydown"
    /\ ev.op = "add"
    /\ last.b = Str(Dog)
    /\ todos[Len(todos)].text = Str(Dog)

====
